---- MODULE Spec2Model ----
(***************************************************************************)
(* Model of two components of the beluga particle filter library:          *)
(*                                                                         *)
(*   - beluga::actions::reweight  (actions/reweight.hpp)                   *)
(*   - beluga::OmnidirectionalDriveModel                                   *)
(*                          (motion/omnidirectional_drive_model.hpp)       *)
(*                                                                         *)
(* Numbers.  Reals are modelled by integers.  Lengths are measured in grid *)
(* cells and angles in quarter turns, so that the rotation of a grid       *)
(* vector by a heading is exact.  std::sqrt is modelled by the integer     *)
(* square root (rounded down to the representable grid, as std::sqrt       *)
(* rounds to the nearest double); it is exact on perfect squares, which is *)
(* what the norm of an axis-aligned translation is.                        *)
(***************************************************************************)
EXTENDS Integers, Sequences, FiniteSets

(***************************************************************************)
(* Bounds of the model.                                                    *)
(***************************************************************************)
\* Longest particle range explored (likelihood ranges go one element further).
MaxLen == 2
\* Largest grid coordinate of an odometry pose.
MaxCoord == 1

(***************************************************************************)
(* Angles: Sophus::SO2d, in quarter turns.                                 *)
(***************************************************************************)
\* Sophus::Constants<double>::pi() expressed in quarter turns.
Pi == 2

FullTurn == 2 * Pi

\* Sophus::SO2d{theta}: the rotation by theta; rotations are kept in 0..FullTurn-1.
SO2(theta) == theta % FullTurn

\* SO2d::operator*
SO2Mul(a, b) == (a + b) % FullTurn

\* SO2d::inverse()
SO2Inverse(a) == (FullTurn - a) % FullTurn

\* SO2d::log(): the angle of a rotation, atan2(sin, cos), in (-Pi, Pi].
SO2Log(a) == IF a > Pi THEN a - FullTurn ELSE a

\* std::abs
Abs(n) == IF n < 0 THEN -n ELSE n

\* std::min
Min(a, b) == IF b < a THEN b ELSE a

\* std::sqrt, rounded down to an integer.
Sqrt(n) == CHOOSE r \in 0..n : r * r <= n /\ (r + 1) * (r + 1) > n

\* Eigen::Vector2d
Vec(x, y) == [x |-> x, y |-> y]

\* Eigen norm(): sqrt of the squared norm.
Norm(v) == Sqrt(v.x * v.x + v.y * v.y)

\* std::atan2(y, x) of a vector lying on a grid axis, in quarter turns;
\* atan2(0, 0) is 0.
Atan2(y, x) ==
    CASE y = 0 /\ x >= 0 -> 0
      [] x = 0 /\ y > 0 -> 1
      [] y = 0 /\ x < 0 -> Pi
      [] x = 0 /\ y < 0 -> -1

\* The rotation matrix of an SO2d applied to a vector.
Rotate(a, v) ==
    CASE a = 0 -> Vec(v.x, v.y)
      [] a = 1 -> Vec(-v.y, v.x)
      [] a = 2 -> Vec(-v.x, -v.y)
      [] a = 3 -> Vec(v.y, -v.x)

\* Sophus::SE2d{so2, translation}
SE2(so2, t) == [x |-> t.x, y |-> t.y, h |-> so2]

\* SE2d::translation()
Translation(p) == Vec(p.x, p.y)

\* SE2d::operator*: (R1, t1) * (R2, t2) = (R1 R2, t1 + R1 t2)
SE2Mul(a, b) ==
    LET r == Rotate(a.h, Translation(b))
    IN  [x |-> a.x + r.x, y |-> a.y + r.y, h |-> SO2Mul(a.h, b.h)]

(***************************************************************************)
(* Input domains.                                                          *)
(***************************************************************************)
\* Particle states handed to reweight and to apply_motion.
ParticleStates == {[x |-> 0, y |-> 0, h |-> 0], [x |-> 2, y |-> -1, h |-> 1]}

\* Weights a particle range starts with.
InitialWeights == {1, 2}

\* Values a likelihood can take.
Likelihoods == {0, 1, 3}

\* Likelihood callables: deterministic functions of the particle state.
Models == [ParticleStates -> Likelihoods]

\* Sequences over S of length lo..hi.
SeqsOf(S, lo, hi) == UNION {[1..n -> S] : n \in lo..hi}

\* Precomputed likelihood ranges: shorter than, as long as and longer than the
\* particle range.
LikelihoodRanges == SeqsOf(Likelihoods, 0, MaxLen + 1)

ExecutionPolicies == {"seq", "par"}

\* Absolute odometry poses.
Poses == [x : 0..MaxCoord, y : 0..MaxCoord, h : 0..(FullTurn - 1)]

\* Distance thresholds, in grid cells: below, at and above a one-cell step.
Thresholds == {0, 1, 2}

\* Noise coefficients alpha1..alpha5 and the distance threshold.
ParamSet ==
    { [rotation_noise_from_rotation |-> a[1],
       rotation_noise_from_translation |-> a[2],
       translation_noise_from_translation |-> a[3],
       translation_noise_from_rotation |-> a[4],
       strafe_noise_from_translation |-> a[5],
       distance_threshold |-> t] :
         a \in {<<1, 4, 9, 16, 25>>}, t \in Thresholds }

\* Standard-normal values the three draws of one apply_motion call produce.
Draws == {<<0, 0, 0>>, <<1, -1, 2>>}

\* std::normal_distribution<double>::param_type
DistributionParam(mean, stddev) == [mean |-> mean, stddev |-> stddev]

VARIABLES
    \* ---- particle range and the reweight call in progress ----
    states,            \* range | views::states
    weights,           \* range | views::weights
    rw_pc,             \* "idle", "running", "done"
    rw_form,           \* overload of the call: "none", "model", "likelihoods"
    rw_policy,         \* execution policy of the call
    rw_model,          \* the callable of a model-form call
    rw_likelihoods,    \* the likelihood range of a precomputed-form call
    rw_pending,        \* indices the algorithm has not visited yet
    rw_result,         \* how the last call ended: "none", "range"
    states0,           \* history: states when the call was made
    weights0,          \* history: weights when the call was made
    rw_writes,         \* history: number of writes to each weight in this call
    \* ---- OmnidirectionalDriveModel ----
    params_,
    last_pose_,        \* std::optional: <<>> or <<pose>>
    rotation_params_,
    strafe_params_,
    translation_params_,
    first_rotation_,
    prev_pose,         \* history: last_pose_ before the latest update_motion
    last_arg,          \* history: argument of the latest update_motion
    rv_seen,           \* history: latest rotation_variance evaluation
    first_call,        \* history: first apply_motion since the latest update
    last_call,         \* history: latest apply_motion since the latest update
    interleaved        \* history: a call unlike first_call was made after it

rw_vars == <<states, weights, rw_pc, rw_form, rw_policy, rw_model, rw_likelihoods,
             rw_pending, rw_result, states0, weights0, rw_writes>>

model_vars == <<params_, last_pose_, rotation_params_, strafe_params_,
                translation_params_, first_rotation_>>

motion_hist == <<prev_pose, last_arg, rv_seen, first_call, last_call, interleaved>>

motion_vars == <<model_vars, motion_hist>>

vars == <<rw_vars, motion_vars>>

(***************************************************************************)
(* reweight                                                                *)
(***************************************************************************)
\* The callable slot of a call that was given no callable.
NoModel == [s \in ParticleStates |-> 1]

\* A particle range of n particles.
InitRange ==
    /\ \E n \in 0..MaxLen :
         /\ states \in [1..n -> ParticleStates]
         /\ weights \in [1..n -> InitialWeights]
    /\ rw_pc = "idle"
    /\ rw_form = "none"
    /\ rw_policy = "seq"
    /\ rw_model = NoModel
    /\ rw_likelihoods = <<>>
    /\ rw_pending = {}
    /\ rw_result = "none"
    /\ states0 = states
    /\ weights0 = weights
    /\ rw_writes = [i \in 1..Len(weights) |-> 0]

\* reweight is called on a range nobody else is working on, and whose weights
\* the caller has kept within the starting values.
CanCall ==
    /\ rw_pc \in {"idle", "done"}
    /\ \A i \in 1..Len(weights) : weights[i] \in InitialWeights

BeginCall ==
    /\ states0' = states
    /\ weights0' = weights
    /\ rw_writes' = [i \in 1..Len(weights) |-> 0]
    /\ rw_result' = "none"
    /\ rw_pc' = "running"
    /\ UNCHANGED <<states, weights>>

\* reweight(policy, range, model): std::transform over [begin(states), end(states)).
ReweightModel(policy, model) ==
    /\ CanCall
    /\ BeginCall
    /\ rw_form' = "model"
    /\ rw_policy' = policy
    /\ rw_model' = model
    /\ rw_pending' = 1..Len(states)
    /\ rw_likelihoods' = <<>>

\* reweight(policy, range, likelihoods): std::for_each over zip(range, likelihoods);
\* the zip view ends with the shorter of the two ranges.
ReweightLikelihoods(policy, likelihoods) ==
    /\ CanCall
    /\ BeginCall
    /\ rw_form' = "likelihoods"
    /\ rw_policy' = policy
    /\ rw_likelihoods' = likelihoods
    /\ rw_pending' = 1..Min(Len(weights), Len(likelihoods))
    /\ rw_model' = NoModel

\* The elements an execution policy may process next: sequenced execution
\* visits them in order, parallel execution in any order.
Schedulable ==
    IF rw_policy = "seq"
      THEN {i \in rw_pending : \A j \in rw_pending : i <= j}
      ELSE rw_pending

\* A transform operation that adds the likelihood instead of multiplying by it.
TransformOpAdd(i) == weights[i] + rw_model[states[i]]

\* A for_each body that accumulates onto the weight of the element before it.
ForEachOpNeighbour(i) ==
    weights[IF i > 1 THEN i - 1 ELSE i] * rw_likelihoods[i]

\* The transform's unary operation: [model](const auto& s, auto w) { return w * model(s); }
TransformOp(i) == weights[i] * rw_model[states[i]]

\* The for_each body: beluga::weight(particle) *= likelihood
ForEachOp(i) == weights[i] * rw_likelihoods[i]

Visit(i, w) ==
    /\ weights' = [weights EXCEPT ![i] = w]
    /\ rw_writes' = [rw_writes EXCEPT ![i] = @ + 1]
    /\ rw_pending' = rw_pending \ {i}
    /\ UNCHANGED <<states, rw_pc, rw_form, rw_policy, rw_model, rw_likelihoods,
                   rw_result, states0, weights0>>

\* One application of the transform operation.
TransformStep ==
    /\ rw_pc = "running"
    /\ rw_form = "model"
    /\ \E i \in Schedulable : Visit(i, TransformOp(i))

\* One application of the for_each body.
ForEachStep ==
    /\ rw_pc = "running"
    /\ rw_form = "likelihoods"
    /\ \E i \in Schedulable : Visit(i, ForEachOp(i))

\* return range;
ReweightReturn ==
    /\ rw_pc = "running"
    /\ rw_pending = {}
    /\ rw_pc' = "done"
    /\ rw_result' = "range"
    /\ UNCHANGED <<states, weights, rw_form, rw_policy, rw_model, rw_likelihoods,
                   rw_pending, states0, weights0, rw_writes>>

(***************************************************************************)
(* OmnidirectionalDriveModel                                               *)
(***************************************************************************)
\* A model whose rotation parameters are left default-constructed, which for
\* std::normal_distribution means a standard deviation of one.
InitModelDefaultStddev ==
    /\ params_ \in ParamSet
    /\ last_pose_ = <<>>
    /\ rotation_params_ = DistributionParam(0, 1)
    /\ strafe_params_ = DistributionParam(0, 0)
    /\ translation_params_ = DistributionParam(0, 0)
    /\ first_rotation_ = SO2(0)
    /\ prev_pose = <<>>
    /\ last_arg = <<>>
    /\ rv_seen = <<>>
    /\ first_call = <<>>
    /\ last_call = <<>>
    /\ interleaved = FALSE

\* Construction: params_{params}, an empty last_pose_, zero distribution
\* parameters and an identity first_rotation_.
InitModel ==
    /\ params_ \in ParamSet
    /\ last_pose_ = <<>>
    /\ rotation_params_ = DistributionParam(0, 0)
    /\ strafe_params_ = DistributionParam(0, 0)
    /\ translation_params_ = DistributionParam(0, 0)
    /\ first_rotation_ = SO2(0)
    /\ prev_pose = <<>>
    /\ last_arg = <<>>
    /\ rv_seen = <<>>
    /\ first_call = <<>>
    /\ last_call = <<>>
    /\ interleaved = FALSE

\* A rotation variance that looks at the rotation only, not at its flip.
rotation_variance_noflip(rotation) ==
    LET delta == Abs(SO2Log(rotation))
    IN  delta * delta

\* Treat backward and forward motion symmetrically for the noise models.
rotation_variance(rotation) ==
    LET flipped_rotation == SO2Mul(rotation, SO2(Pi))
        delta == Min(Abs(SO2Log(rotation)), Abs(SO2Log(flipped_rotation)))
    IN  delta * delta

\* distribution(gen, param): the standard-normal value z scaled and shifted.
Sample(z, param) == z * param.stddev + param.mean

\* An apply_motion whose distribution object keeps the values of the call
\* before and hands them out again.
apply_motion_cached(state, z) ==
    LET zz == IF last_call = <<>> THEN z ELSE last_call[1].z
        second_rotation ==
            SO2Mul(SO2(Sample(zz[1], rotation_params_)), SO2Inverse(first_rotation_))
        translation ==
            Vec(Sample(zz[2], translation_params_), -1 * Sample(zz[3], strafe_params_))
    IN  SE2Mul(SE2Mul(state, SE2(first_rotation_, Vec(0, 0))),
               SE2(second_rotation, translation))

\* An apply_motion that takes the sampled rotation for the second rotation,
\* without taking the first rotation out of it.
apply_motion_nosubtract(state, z) ==
    LET second_rotation == SO2(Sample(z[1], rotation_params_))
        translation ==
            Vec(Sample(z[2], translation_params_), -1 * Sample(z[3], strafe_params_))
    IN  SE2Mul(SE2Mul(state, SE2(first_rotation_, Vec(0, 0))),
               SE2(second_rotation, translation))

\* apply_motion(state, gen), z being the three standard-normal values drawn.
apply_motion(state, z) ==
    LET second_rotation ==
            SO2Mul(SO2(Sample(z[1], rotation_params_)), SO2Inverse(first_rotation_))
        translation ==
            Vec(Sample(z[2], translation_params_), -1 * Sample(z[3], strafe_params_))
    IN  SE2Mul(SE2Mul(state, SE2(first_rotation_, Vec(0, 0))),
               SE2(second_rotation, translation))

\* A call of apply_motion: the model is read, the result returned.
ApplyMotion(state, z) ==
    LET call == [state |-> state, z |-> z, out |-> apply_motion(state, z)]
    IN  /\ last_call' = <<call>>
        /\ first_call' = IF first_call = <<>> THEN <<call>> ELSE first_call
        /\ interleaved' = (interleaved \/ (first_call # <<>> /\ first_call # <<call>>))
        /\ UNCHANGED <<model_vars, prev_pose, last_arg, rv_seen>>

\* The translation between two poses lies on a grid axis: its norm and its
\* bearing are exact in the model's arithmetic.
OnAxis(pose) ==
    IF last_pose_ = <<>>
      THEN TRUE
      ELSE pose.x = last_pose_[1].x \/ pose.y = last_pose_[1].y

\* A first rotation that takes the bearing at the threshold as well.
FirstRotationAtThreshold(translation, distance, previous_orientation) ==
    IF distance >= params_.distance_threshold
      THEN SO2Mul(SO2(Atan2(translation.y, translation.x)),
                  SO2Inverse(previous_orientation))
      ELSE SO2(0)

\* first_rotation_ = distance > threshold ? SO2{atan2(t.y, t.x)} * previous^-1 : SO2{0}
FirstRotation(translation, distance, previous_orientation) ==
    IF distance > params_.distance_threshold
      THEN SO2Mul(SO2(Atan2(translation.y, translation.x)),
                  SO2Inverse(previous_orientation))
      ELSE SO2(0)

\* rotation_params_ = {rotation.log(), sqrt(alpha1 * rv + alpha2 * distance_variance)}
RotationParams(rotation, distance, distance_variance) ==
    DistributionParam(
        SO2Log(rotation),
        Sqrt(params_.rotation_noise_from_rotation * rotation_variance(rotation)
             + params_.rotation_noise_from_translation * distance_variance))

\* translation_params_ = {distance, sqrt(alpha3 * distance_variance + alpha4 * rv)}
TranslationParams(rotation, distance, distance_variance) ==
    DistributionParam(
        distance,
        Sqrt(params_.translation_noise_from_translation * distance_variance
             + params_.translation_noise_from_rotation * rotation_variance(rotation)))

\* Strafe parameters computed with the translation coefficient alpha3 in the
\* place of the strafe coefficient alpha5.
StrafeParamsAlpha3(rotation, distance, distance_variance) ==
    DistributionParam(
        0,
        Sqrt(params_.translation_noise_from_translation * distance_variance
             + params_.translation_noise_from_rotation * rotation_variance(rotation)))

\* strafe_params_ = {0.0, sqrt(alpha5 * distance_variance + alpha4 * rv)}
StrafeParams(rotation, distance, distance_variance) ==
    DistributionParam(
        0,
        Sqrt(params_.strafe_noise_from_translation * distance_variance
             + params_.translation_noise_from_rotation * rotation_variance(rotation)))

\* A pose stored only while no pose is stored yet.
StorePoseOnce(pose) == IF last_pose_ = <<>> THEN <<pose>> ELSE last_pose_

\* last_pose_ = pose, assigned on every call.
StorePose(pose) == <<pose>>

\* update_motion(pose)
update_motion(pose) ==
    /\ OnAxis(pose)
    /\ IF last_pose_ # <<>>
         THEN LET translation ==
                      Vec(pose.x - last_pose_[1].x, pose.y - last_pose_[1].y)
                  distance == Norm(translation)
                  distance_variance == distance * distance
                  previous_orientation == last_pose_[1].h
                  current_orientation == pose.h
                  rotation == SO2Mul(current_orientation,
                                     SO2Inverse(previous_orientation))
              IN  /\ first_rotation_' =
                         FirstRotation(translation, distance, previous_orientation)
                  /\ rotation_params_' =
                         RotationParams(rotation, distance, distance_variance)
                  /\ translation_params_' =
                         TranslationParams(rotation, distance, distance_variance)
                  /\ strafe_params_' =
                         StrafeParams(rotation, distance, distance_variance)
                  /\ rv_seen' = <<[arg |-> rotation,
                                   val |-> rotation_variance(rotation)]>>
         ELSE UNCHANGED <<first_rotation_, rotation_params_, translation_params_,
                          strafe_params_, rv_seen>>
    /\ last_pose_' = StorePose(pose)
    /\ prev_pose' = last_pose_
    /\ last_arg' = <<pose>>
    /\ first_call' = <<>>
    /\ last_call' = <<>>
    /\ interleaved' = FALSE
    /\ UNCHANGED params_

\* latest_motion_update()
latest_motion_update == last_pose_

(***************************************************************************)
(* Specifications                                                          *)
(***************************************************************************)
\* The reweight action on a particle range; the motion model stays as built.
InitReweight == InitRange /\ InitModel /\ params_.distance_threshold = 0

NextReweight ==
    \/ \E policy \in ExecutionPolicies, model \in Models :
         ReweightModel(policy, model) /\ UNCHANGED motion_vars
    \/ \E policy \in ExecutionPolicies, likelihoods \in LikelihoodRanges :
         ReweightLikelihoods(policy, likelihoods) /\ UNCHANGED motion_vars
    \/ TransformStep /\ UNCHANGED motion_vars
    \/ ForEachStep /\ UNCHANGED motion_vars
    \/ ReweightReturn /\ UNCHANGED motion_vars

SpecReweight == InitReweight /\ [][NextReweight]_vars

\* The motion model under update_motion and apply_motion calls; the particle
\* range is left alone.
InitMotion == InitModel /\ InitRange /\ Len(states) = 0

NextMotion ==
    \/ \E pose \in Poses : update_motion(pose) /\ UNCHANGED rw_vars
    \/ \E state \in ParticleStates, z \in Draws :
         ApplyMotion(state, z) /\ UNCHANGED rw_vars

SpecMotion == InitMotion /\ [][NextMotion]_vars

(***************************************************************************)
(* Properties of reweight                                                  *)
(***************************************************************************)
\* The likelihood the call in progress applies to element i.
LikelihoodAt(i) ==
    IF rw_form = "model" THEN rw_model[states0[i]] ELSE rw_likelihoods[i]

\* A precomputed-form call whose likelihood range is not as long as the range.
Mismatched ==
    /\ rw_form = "likelihoods"
    /\ Len(rw_likelihoods) # Len(weights)

\* A call on a deterministic source aligned with the range.
Aligned ==
    \/ rw_form = "model"
    \/ rw_form = "likelihoods" /\ Len(rw_likelihoods) = Len(weights)

\* C1: a precomputed-form reweight whose likelihood range is shorter or longer
\* than the particle range ends with a PreconditionViolation reported to the
\* caller; it never returns the range normally.
C1_MismatchFails ==
    (rw_pc = "done" /\ Mismatched) => rw_result = "PreconditionViolation"

\* C2: after a model-form reweight, every weight is its value before the call
\* times the model's likelihood of its state, every state is unchanged, the
\* range has the length it had, and the range itself is returned.
C2_ModelForm ==
    /\ states = states0
    /\ Len(weights) = Len(weights0)
    /\ Len(weights) = Len(states)
    /\ (rw_pc = "done" /\ rw_form = "model") =>
          /\ rw_result = "range"
          /\ \A i \in 1..Len(weights0) :
                weights[i] = weights0[i] * rw_model[states0[i]]

\* A finished model-form call on two particles with different states and a
\* model that tells them apart.
C2_Witness ==
    /\ rw_pc = "done"
    /\ rw_form = "model"
    /\ Len(weights) = 2
    /\ states[1] # states[2]
    /\ rw_model[states[1]] = 3
    /\ rw_model[states[2]] = 0
    /\ weights0 = <<2, 2>>
    /\ weights = <<6, 0>>

\* The weights left by applying the likelihoods one index after the other,
\* from the first to the last.
SequentialResult ==
    LET n == Len(weights0)
        f[k \in 0..n] ==
            IF k = 0 THEN weights0
            ELSE [f[k - 1] EXCEPT ![k] = f[k - 1][k] * LikelihoodAt(k)]
    IN  f[n]

\* A per-index update touches the weight of one index only, leaves every state
\* alone, and computes the new weight from that index's weight and likelihood.
IndependentUpdate ==
    rw_pending' # rw_pending /\ rw_pc = "running" =>
        \E i \in rw_pending :
            /\ rw_pending' = rw_pending \ {i}
            /\ states' = states
            /\ \A j \in 1..Len(weights) : j # i => weights'[j] = weights[j]
            /\ weights'[i] = weights0[i] * LikelihoodAt(i)

\* C3: with a deterministic likelihood source aligned with the range, every
\* order of the per-index updates that the execution policy permits ends with
\* the weights of the left-to-right sequential application; each weight is
\* written exactly once, and an update reads and writes its own index only.
C3_SeqParEquivalence ==
    /\ [](rw_pc = "done" /\ Aligned =>
            /\ weights = SequentialResult
            /\ \A i \in 1..Len(weights) : rw_writes[i] = 1)
    /\ [](\A i \in 1..Len(weights) : rw_writes[i] <= 1)
    /\ [][Aligned => IndependentUpdate]_vars

\* A parallel call in which the second element was updated before the first.
C3_Witness ==
    /\ rw_pc = "running"
    /\ rw_policy = "par"
    /\ rw_form = "likelihoods"
    /\ Len(weights) = 2
    /\ Len(rw_likelihoods) = 2
    /\ rw_pending = {1}
    /\ rw_writes = <<0, 1>>
    /\ weights[2] # weights0[2]

(***************************************************************************)
(* Properties of OmnidirectionalDriveModel                                 *)
(***************************************************************************)
\* The latest update_motion call found a pose stored.
HasPrior == prev_pose # <<>> /\ last_arg # <<>>

\* update_motion has been called exactly once.
SingleUpdate == prev_pose = <<>> /\ last_arg # <<>>

\* The pose that was stored when the latest update_motion was called, and the
\* pose that call was given.
P0 == prev_pose[1]
P1 == last_arg[1]

\* The odometry delta of the latest update: translation, squared distance,
\* distance and turn.
Dx == P1.x - P0.x
Dy == P1.y - P0.y
Dist2 == Dx * Dx + Dy * Dy
Dist == CHOOSE d \in 0..Dist2 : d * d = Dist2

\* An angle wrapped to (-Pi, Pi].
Wrap(a) == LET m == a % FullTurn IN IF m > Pi THEN m - FullTurn ELSE m

\* The new heading relative to the last heading.
Turn == Wrap(P1.h - P0.h)

\* The direction of a translation that is not zero.
Bearing == CHOOSE b \in 0..(FullTurn - 1) : Rotate(b, Vec(Dist, 0)) = Vec(Dx, Dy)

\* The bearing of the translation relative to the previous heading.
RelativeBearing == (Bearing - P0.h) % FullTurn

\* rv(r) = min(|angle(r)|, |angle(r + half turn)|)^2
Rv(r) == LET m == Min(Abs(Wrap(r)), Abs(Wrap(r + Pi))) IN m * m

\* s is the square root of v, to the precision of the model's numbers.
IsSqrtOf(s, v) == s >= 0 /\ s * s <= v /\ v < (s + 1) * (s + 1)

\* The inverse of a pose.
SE2Inverse(p) ==
    LET hi == (FullTurn - p.h) % FullTurn
        r == Rotate(hi, Vec(-p.x, -p.y))
    IN  [x |-> r.x, y |-> r.y, h |-> hi]

\* The relative motion from P0 to P1.
OdometryDelta == SE2Mul(SE2Inverse(P0), P1)

\* The draws of a generator without noise.
ZeroNoise == <<0, 0, 0>>

\* C4 as stated: after an update_motion call that found a pose stored,
\* first_rotation is 0 when distance < distance_threshold and the bearing of
\* the translation relative to the previous heading when distance is equal to
\* or greater than distance_threshold.
C4_Original ==
    HasPrior =>
        /\ Dist < params_.distance_threshold => first_rotation_ = 0
        /\ (Dist >= params_.distance_threshold /\ Dist > 0) =>
              first_rotation_ = RelativeBearing

\* C4: after an update_motion call that found a pose stored, first_rotation is
\* 0 when distance <= distance_threshold, whatever the direction of the
\* translation, and the bearing of the translation relative to the previous
\* heading when distance > distance_threshold.
C4_FirstRotation ==
    HasPrior =>
        /\ Dist <= params_.distance_threshold => first_rotation_ = 0
        /\ Dist > params_.distance_threshold => first_rotation_ = RelativeBearing

\* An update whose distance equals the threshold and whose translation does
\* not point along the previous heading.
C4_Witness ==
    /\ HasPrior
    /\ Dist > 0
    /\ Dist = params_.distance_threshold
    /\ RelativeBearing # 0
    /\ first_rotation_ = 0

\* C5: after exactly one update_motion call the pose is stored, first_rotation
\* and the three (mean, std) pairs are zero, and apply_motion returns the state
\* it was given, for every state and every draw.
C5_SingleUpdate ==
    SingleUpdate =>
        /\ last_pose_ = last_arg
        /\ first_rotation_ = 0
        /\ rotation_params_ = [mean |-> 0, stddev |-> 0]
        /\ translation_params_ = [mean |-> 0, stddev |-> 0]
        /\ strafe_params_ = [mean |-> 0, stddev |-> 0]
        /\ \A s \in ParticleStates, z \in Draws : apply_motion(s, z) = s
        /\ last_call # <<>> => last_call[1].out = last_call[1].state

\* apply_motion called with draws that are not zero, after a single update.
C5_Witness ==
    /\ SingleUpdate
    /\ last_call # <<>>
    /\ last_call[1].z # ZeroNoise
    /\ last_call[1].state.h # 0
    /\ last_call[1].out = last_call[1].state

\* C6: after an update_motion call that found a pose stored, the three pairs
\* are those of that call's delta: rotation (turn, sqrt(a1 rv(turn) + a2 d^2)),
\* translation (d, sqrt(a3 d^2 + a4 rv(turn))), strafe
\* (0, sqrt(a5 d^2 + a4 rv(turn))); for the poses (0,0,0) then (1,0,0) the
\* variances are a2, a3 and a5 and the translation mean is 1.
C6_NoiseParameters ==
    HasPrior =>
        /\ rotation_params_.mean = Turn
        /\ IsSqrtOf(rotation_params_.stddev,
                    params_.rotation_noise_from_rotation * Rv(Turn)
                    + params_.rotation_noise_from_translation * Dist2)
        /\ translation_params_.mean = Dist
        /\ IsSqrtOf(translation_params_.stddev,
                    params_.translation_noise_from_translation * Dist2
                    + params_.translation_noise_from_rotation * Rv(Turn))
        /\ strafe_params_.mean = 0
        /\ IsSqrtOf(strafe_params_.stddev,
                    params_.strafe_noise_from_translation * Dist2
                    + params_.translation_noise_from_rotation * Rv(Turn))
        /\ (P0 = [x |-> 0, y |-> 0, h |-> 0] /\ P1 = [x |-> 1, y |-> 0, h |-> 0]) =>
              /\ rotation_params_.mean = 0
              /\ IsSqrtOf(rotation_params_.stddev,
                          params_.rotation_noise_from_translation)
              /\ translation_params_.mean = 1
              /\ IsSqrtOf(translation_params_.stddev,
                          params_.translation_noise_from_translation)
              /\ IsSqrtOf(strafe_params_.stddev,
                          params_.strafe_noise_from_translation)

\* An update by one cell and a quarter turn.
C6_Witness ==
    /\ HasPrior
    /\ Dist = 1
    /\ Turn = 1
    /\ rotation_params_ = [mean |-> 1, stddev |-> 2]
    /\ translation_params_ = [mean |-> 1, stddev |-> 5]
    /\ strafe_params_ = [mean |-> 0, stddev |-> 6]

C8_RotationVarianceSymmetry ==
    /\ \A t \in -FullTurn..FullTurn :
          /\ rotation_variance(SO2(t)) = rotation_variance(SO2(t + Pi))
          /\ rotation_variance(SO2(t)) = Rv(t)
    /\ rv_seen # <<>> =>
          rv_seen[1].val = rotation_variance(SO2Mul(rv_seen[1].arg, SO2(Pi)))

\* update_motion evaluated the rotation variance of a half turn.
C8_Witness ==
    /\ rv_seen # <<>>
    /\ rv_seen[1].arg = SO2(Pi)
    /\ rv_seen[1].val = 0

\* C9: latest_motion_update() is empty exactly when update_motion was never
\* called, and is otherwise the pose given to the latest update_motion call.
C9_LatestMotionUpdate ==
    /\ latest_motion_update = <<>> <=> last_arg = <<>>
    /\ last_arg # <<>> => latest_motion_update = last_arg

\* A pose replaced by another one at the same position (a distance of zero, at
\* or below every threshold), with an apply_motion call after it.
C9_Witness ==
    /\ HasPrior
    /\ P0 # P1
    /\ Dist = 0
    /\ last_call # <<>>
    /\ latest_motion_update = <<P1>>

\* C10 as stated: for every two consecutive poses, whatever the magnitude of
\* the translation, apply_motion without noise returns the state composed with
\* the relative motion from the first pose to the second.
C10_Original ==
    HasPrior =>
        \A s \in ParticleStates : apply_motion(s, ZeroNoise) = SE2Mul(s, OdometryDelta)

\* The translation, seen from the previous pose, points straight ahead or is zero.
StraightAhead == Dist = 0 \/ RelativeBearing = 0

\* C10: for two consecutive poses whose distance is greater than the
\* threshold, or whose translation is zero or points along the previous
\* heading, apply_motion without noise returns the state composed with the
\* relative motion from the first pose to the second; for (0,0,0) then (1,0,0)
\* the state moves by (1,0) in its own frame and keeps its heading.
C10_ZeroNoiseDelta ==
    (HasPrior /\ (Dist > params_.distance_threshold \/ StraightAhead)) =>
        /\ \A s \in ParticleStates :
              apply_motion(s, ZeroNoise) = SE2Mul(s, OdometryDelta)
        /\ (last_call # <<>> /\ last_call[1].z = ZeroNoise) =>
              last_call[1].out = SE2Mul(last_call[1].state, OdometryDelta)
        /\ (P0 = [x |-> 0, y |-> 0, h |-> 0] /\ P1 = [x |-> 1, y |-> 0, h |-> 0]) =>
              \A s \in ParticleStates :
                  apply_motion(s, ZeroNoise) =
                      SE2Mul(s, [x |-> 1, y |-> 0, h |-> 0])

\* A sideways translation above the threshold together with a turn, applied
\* without noise to a state that is itself turned.
C10_Witness ==
    /\ HasPrior
    /\ Dist > params_.distance_threshold
    /\ RelativeBearing = 1
    /\ Turn = -1
    /\ last_call # <<>>
    /\ last_call[1].z = ZeroNoise
    /\ last_call[1].state.h = 1
    /\ last_call[1].out = SE2Mul(last_call[1].state, OdometryDelta)

====
